---- MODULE Spec2Model ----
(***************************************************************************)
(* Model of server.js: the authentication gate (ensureAuthenticated) and   *)
(* the AI routes, each of which forwards one prompt to the remote          *)
(* completion API and turns the outcome into a JSON response.              *)
(*                                                                         *)
(* server.js holds two revisions of the server one after the other         *)
(* (lines 1-175 and 177-392).  The variable rev says which one runs.       *)
(***************************************************************************)
EXTENDS Integers, Sequences, FiniteSets, TLC

\* Number of HTTP requests the server handles, possibly concurrently.
NumRequests == 2

Requests == 1..NumRequests

Revisions == {1, 2}

VARIABLES
    rev,        \* which revision of server.js is running
    pc,         \* per request: "idle", "awaiting" (suspended at await), "done"
    req,        \* per request: route, body and req.isAuthenticated()
    invoked,    \* per request: the route handler was entered (next() called)
    sent,       \* per request: completion requests passed to openai.chat.completions.create
    settled,    \* per request: what the awaited remote calls settled with
    console,    \* per request: console.error entries written while handling it
    res,        \* per request: the HTTP response sent
    unhandled   \* requests whose handler let an exception escape

vars == <<rev, pc, req, invoked, sent, settled, console, res, unhandled>>

----------------------------------------------------------------------------
\* Configuration read from the source

\* app.post(...) registrations of each revision.
Routes(rv) ==
    IF rv = 1 THEN {"/generate", "/chat"}
    ELSE {"/generate", "/audit-cost", "/risk-analyze", "/chat"}

\* The model literal passed to create(); the same on every route of a revision.
Model(rv) ==
    IF rv = 1 THEN "openai/gpt-oss-20b:free"
    ELSE "google/gemini-2.0-flash-exp:free"

\* The models a resolution may try, in order: the one hardcoded model.
Candidates(rv) == <<Model(rv)>>

\* JSON bodies a client may post to a route.
Bodies(route) ==
    IF route = "/chat"
    THEN {[message |-> "hi"], [message |-> ""]}
    ELSE {[prompt |-> "Summarize", text |-> "notes"], [prompt |-> "", text |-> ""]}

FullPrompt_noText(route, body) ==
    IF route = "/chat" THEN body.message ELSE body.prompt

\* const fullPrompt = `${prompt}: ${text}`  (or message on /chat)
FullPrompt(route, body) ==
    IF route = "/chat" THEN body.message
    ELSE body.prompt \o ": " \o body.text

\* The argument of openai.chat.completions.create.
CompletionRequest(rv, route, body) ==
    [messages |-> <<[role |-> "user", content |-> FullPrompt(route, body)]>>,
     model    |-> Model(rv)]

\* What the awaited create() call can settle with: a completion payload
\* (with or without choices) or a rejection carrying a status and a message.
Completion(t) ==
    [kind |-> "resolved",
     completion |-> [choices |-> <<[message |-> [role |-> "assistant", content |-> t]]>>]]

Malformed == [kind |-> "resolved", completion |-> [choices |-> <<>>]]

Rejection(name, status, message) ==
    [kind |-> "rejected", error |-> [name |-> name, status |-> status, message |-> message]]

RateLimited == Rejection("RateLimitError", 429, "Too Many Requests")

UnknownModel == Rejection("NotFoundError", 404, "No endpoints found for model")

NetworkFailure == Rejection("APIConnectionError", 0, "Connection error.")

Settlements ==
    {Completion("hello"), Completion("ok"), Malformed,
     RateLimited, UnknownModel, NetworkFailure}

\* Whether the try block runs to res.json: the call resolved and
\* completion.choices[0].message.content can be read.
Completes(o) == o.kind = "resolved" /\ Len(o.completion.choices) > 0

AiText_role(o) == o.completion.choices[1].message.role

\* const aiText = completion.choices[0].message.content
AiText(o) == o.completion.choices[1].message.content

Thrown_generic(o) == [name |-> "Error", message |-> "request failed"]

\* The value bound to `error` in the catch block: the rejection of the
\* awaited call, or the TypeError of reading choices[0].message.
Thrown(o) ==
    IF o.kind = "rejected" THEN o.error
    ELSE [name |-> "TypeError", message |-> "Cannot read properties of undefined"]

\* The key carrying the text in the JSON result.
ResultKey(route) == IF route = "/chat" THEN "reply" ELSE "content"

\* First argument of console.error in the catch block (revision 1 logs the
\* error alone).
ConsoleLabel(rv, route) ==
    IF rv = 1 THEN ""
    ELSE IF route = "/generate" THEN "Error generating AI response:"
    ELSE IF route = "/audit-cost" THEN "Error with audit AI:"
    ELSE IF route = "/risk-analyze" THEN "Error with risk analysis AI:"
    ELSE "Error with chat AI:"

\* The fixed text sent in the catch block.
FailureMessage(rv, route) ==
    IF rv = 1 THEN "Error: Could not connect to the AI model."
    ELSE IF route = "/generate" THEN "Error generating content from AI."
    ELSE IF route = "/audit-cost" THEN "Error communicating with the Subscription Audit Agent."
    ELSE IF route = "/risk-analyze" THEN "Error communicating with the Risk Analysis Agent."
    ELSE "Error communicating with AI."

\* Status of the catch block's response: res.status(500).json in revision 1,
\* plain res.json (200) in revision 2.
FailureStatus(rv) == IF rv = 1 THEN 500 ELSE 200

SuccessBody(route, t) == (ResultKey(route) :> t) @@ [success |-> TRUE]

FailureBody_success(rv, route) ==
    (ResultKey(route) :> FailureMessage(rv, route)) @@ [success |-> TRUE]

FailureBody(rv, route) ==
    (ResultKey(route) :> FailureMessage(rv, route)) @@ [success |-> FALSE]

NoRequest == [route |-> "", body |-> [none |-> TRUE], isAuthenticated |-> FALSE]

NoResponse == [status |-> 0, body |-> [none |-> TRUE]]

Unauthorized == [status |-> 401, body |-> [error |-> "You must be logged in to do that."]]

----------------------------------------------------------------------------
\* The server

Init ==
    /\ rev \in Revisions
    /\ pc = [r \in Requests |-> "idle"]
    /\ req = [r \in Requests |-> NoRequest]
    /\ invoked = [r \in Requests |-> FALSE]
    /\ sent = [r \in Requests |-> <<>>]
    /\ settled = [r \in Requests |-> <<>>]
    /\ console = [r \in Requests |-> <<>>]
    /\ res = [r \in Requests |-> NoResponse]
    /\ unhandled = {}

\* The route handler up to its await: compose the prompt, call create().
HandlerDispatch(r, rq) ==
    /\ invoked' = [invoked EXCEPT ![r] = TRUE]
    /\ sent' = [sent EXCEPT ![r] = Append(@, CompletionRequest(rev, rq.route, rq.body))]
    /\ pc' = [pc EXCEPT ![r] = "awaiting"]
    /\ res' = res

ensureAuthenticated_open(r, rq) == HandlerDispatch(r, rq)

\* if (req.isAuthenticated()) return next(); res.status(401).json(...)
ensureAuthenticated(r, rq) ==
    IF rq.isAuthenticated
    THEN HandlerDispatch(r, rq)
    ELSE /\ res' = [res EXCEPT ![r] = Unauthorized]
         /\ pc' = [pc EXCEPT ![r] = "done"]
         /\ UNCHANGED <<invoked, sent>>

\* A POST to one of the AI routes arrives and runs through the gate.
Request(r) ==
    /\ pc[r] = "idle"
    /\ \E route \in Routes(rev), a \in BOOLEAN :
         \E body \in Bodies(route) :
           LET rq == [route |-> route, body |-> body, isAuthenticated |-> a] IN
             /\ req' = [req EXCEPT ![r] = rq]
             /\ ensureAuthenticated(r, rq)
    /\ UNCHANGED <<rev, settled, console, unhandled>>

\* The rest of the try block: read the text and send it.
HandlerReply(r, o) ==
    /\ res' = [res EXCEPT ![r] = [status |-> 200, body |-> SuccessBody(req[r].route, AiText(o))]]
    /\ pc' = [pc EXCEPT ![r] = "done"]
    /\ UNCHANGED <<sent, console, unhandled>>

HandlerCatch_retry(r, o) ==
    /\ console' = [console EXCEPT ![r] =
                     Append(@, [label |-> ConsoleLabel(rev, req[r].route), error |-> Thrown(o)])]
    /\ IF Len(sent[r]) < 2
       THEN /\ sent' = [sent EXCEPT ![r] = Append(@, CompletionRequest(rev, req[r].route, req[r].body))]
            /\ UNCHANGED <<res, pc>>
       ELSE /\ res' = [res EXCEPT ![r] =
                         [status |-> FailureStatus(rev), body |-> FailureBody(rev, req[r].route)]]
            /\ pc' = [pc EXCEPT ![r] = "done"]
            /\ sent' = sent
    /\ UNCHANGED unhandled

HandlerCatch_rejectionsOnly(r, o) ==
    IF o.kind = "rejected"
    THEN /\ console' = [console EXCEPT ![r] =
                          Append(@, [label |-> ConsoleLabel(rev, req[r].route), error |-> Thrown(o)])]
         /\ res' = [res EXCEPT ![r] =
                      [status |-> FailureStatus(rev), body |-> FailureBody(rev, req[r].route)]]
         /\ pc' = [pc EXCEPT ![r] = "done"]
         /\ UNCHANGED <<sent, unhandled>>
    ELSE /\ unhandled' = unhandled \cup {r}
         /\ pc' = [pc EXCEPT ![r] = "done"]
         /\ UNCHANGED <<sent, console, res>>

\* The catch block: log the error, send the fixed failure message.
HandlerCatch(r, o) ==
    /\ console' = [console EXCEPT ![r] =
                     Append(@, [label |-> ConsoleLabel(rev, req[r].route), error |-> Thrown(o)])]
    /\ res' = [res EXCEPT ![r] =
                 [status |-> FailureStatus(rev), body |-> FailureBody(rev, req[r].route)]]
    /\ pc' = [pc EXCEPT ![r] = "done"]
    /\ UNCHANGED <<sent, unhandled>>

\* The awaited call settles and the handler resumes after its await.
HandlerResume(r) ==
    /\ pc[r] = "awaiting"
    /\ \E o \in Settlements :
         /\ settled' = [settled EXCEPT ![r] = Append(@, o)]
         /\ IF Completes(o) THEN HandlerReply(r, o) ELSE HandlerCatch(r, o)
    /\ UNCHANGED <<rev, req, invoked>>

Next == \E r \in Requests : Request(r) \/ HandlerResume(r)

Spec == Init /\ [][Next]_vars

\* The awaited call always settles (the client library times it out) and the
\* event loop then runs the handler's continuation.
FairSpec == Spec /\ \A r \in Requests : WF_vars(HandlerResume(r))

----------------------------------------------------------------------------
\* Vocabulary of the specification, read off the model's state

Texts == {"hello", "ok"}

\* The three outcome classes of one attempt, and the class of a completion.
Classification(o) ==
    IF o.kind = "resolved" /\ Len(o.completion.choices) > 0 THEN "Completed"
    ELSE IF o.kind = "rejected" /\ o.error.status = 429 THEN "RateLimited"
    ELSE IF o.kind = "rejected" /\ o.error.status = 404 THEN "UnknownModel"
    ELSE "Other"

Recoverable(o) == Classification(o) \in {"RateLimited", "UnknownModel"}

\* A resolution is a handled request that got past the gate.
Terminated(r) == pc[r] = "done" /\ invoked[r]

IsSuccess(r) == "success" \in DOMAIN res[r].body /\ res[r].body.success = TRUE

IsFailure(r) == "success" \in DOMAIN res[r].body /\ res[r].body.success = FALSE

\* The failure result the catch block is written to send.
FixedFailure(r) ==
    /\ IsFailure(r)
    /\ DOMAIN res[r].body = {"success", ResultKey(req[r].route)}
    /\ res[r].body[ResultKey(req[r].route)] = FailureMessage(rev, req[r].route)

\* The log the specification describes: one entry per failed attempt, with
\* the model tried, the class of the failure and its detail.
FailureLog(r) ==
    [i \in 1..Len(settled[r]) |->
        [model          |-> sent[r][i].model,
         classification |-> Classification(settled[r][i]),
         detail         |-> Thrown(settled[r][i]).message]]

AllRecoverable(r) ==
    /\ Len(settled[r]) >= 1
    /\ \A i \in 1..Len(settled[r]) : Recoverable(settled[r][i])

\* Attempts 1..k-1 failed recoverably and attempt k failed otherwise.
NonRecoverableAt(r, k) ==
    /\ k \in 1..Len(settled[r])
    /\ \A i \in 1..(k-1) : Recoverable(settled[r][i])
    /\ Classification(settled[r][k]) = "Other"

\* The console holds one entry per settled failure, in attempt order.
ConsoleMatchesFailures(r) ==
    /\ Len(console[r]) = Len(settled[r])
    /\ \A i \in 1..Len(console[r]) :
         IF settled[r][i].kind = "rejected"
         THEN console[r][i].error = settled[r][i].error
         ELSE console[r][i].error.name = "TypeError"

----------------------------------------------------------------------------
C4_FirstSuccessReturns ==
    \A r \in Requests : \A t \in Texts :
      (Len(settled[r]) >= 1 /\ settled[r][1] = Completion(t)) =>
        /\ pc[r] = "done"
        /\ res[r].body = [success |-> TRUE] @@ (ResultKey(req[r].route) :> t)
        /\ Len(sent[r]) = 1
        /\ Len(settled[r]) = 1

C4_Witness ==
    \E r \in Requests :
      /\ pc[r] = "done"
      /\ settled[r] = <<Completion("hello")>>
      /\ IsSuccess(r)
      /\ Len(sent[r]) = 1

SomeCompleted(r) ==
    \E i \in 1..Len(settled[r]) : Classification(settled[r][i]) = "Completed"

StructuredResult(r) ==
    \/ res[r] = Unauthorized
    \/ /\ res[r].status \in {200, 500}
       /\ DOMAIN res[r].body = {"success", ResultKey(req[r].route)}
       /\ res[r].body.success \in BOOLEAN

\* C6: whatever the prompt and whatever the remote call does, every request
\* that arrived is eventually answered with a structured result, and no
\* exception ever escapes a route handler.
C6_Total ==
    /\ [](unhandled = {})
    /\ \A r \in Requests :
         (pc[r] = "awaiting") ~> (pc[r] = "done" /\ StructuredResult(r))

C6_Witness ==
    \E r1, r2 \in Requests :
      /\ pc[r1] = "done" /\ pc[r2] = "done"
      /\ req[r1].body = [prompt |-> "", text |-> ""]
      /\ settled[r1] = <<NetworkFailure>>
      /\ settled[r2] = <<Malformed>>
      /\ StructuredResult(r1) /\ StructuredResult(r2)
      /\ unhandled = {}

\* C7: a request whose session is not authenticated is answered 401 with the
\* fixed error body, its route handler is never entered and no completion
\* request is dispatched for it; an authenticated request enters the handler
\* and is not answered 401.
C7_GateRejectsUnauthenticated ==
    \A r \in Requests :
      pc[r] # "idle" =>
        IF req[r].isAuthenticated
        THEN invoked[r] /\ Len(sent[r]) >= 1 /\ res[r].status # 401
        ELSE /\ res[r] = [status |-> 401,
                          body |-> [error |-> "You must be logged in to do that."]]
             /\ ~invoked[r]
             /\ sent[r] = <<>>
             /\ pc[r] = "done"

C7_Witness ==
    \E r1, r2 \in Requests :
      /\ pc[r1] = "done" /\ ~req[r1].isAuthenticated /\ res[r1].status = 401
      /\ req[r1].route \in {"/audit-cost", "/risk-analyze"}
      /\ pc[r2] = "done" /\ req[r2].isAuthenticated /\ invoked[r2]

\* C8: a failed resolution is answered {success: false, content|reply: message}
\* with a 500-class status, a successful one {success: true, content|reply:
\* text} with a non-error status.
C8_FailureIs5xx ==
    \A r \in Requests :
      Terminated(r) =>
        /\ DOMAIN res[r].body = {"success", ResultKey(req[r].route)}
        /\ IsFailure(r) => res[r].status \in 500..599
        /\ IsSuccess(r) => res[r].status \in 200..399

CallerPrompt(r) ==
    IF req[r].route = "/chat" THEN req[r].body.message
    ELSE req[r].body.prompt \o ": " \o req[r].body.text

\* C10 (as stated): every dispatched completion request names the candidate
\* being attempted, has temperature 0.7 (7 tenths) and one user message
\* holding the caller's prompt.
C10_Original ==
    \A r \in Requests : \A i \in 1..Len(sent[r]) :
      /\ sent[r][i].model = Candidates(rev)[i]
      /\ sent[r][i].messages = <<[role |-> "user", content |-> CallerPrompt(r)]>>
      /\ "temperature" \in DOMAIN sent[r][i]
      /\ sent[r][i].temperature = 7

\* C10 (amended): every dispatched completion request has exactly the fields
\* model and messages (no temperature, so the provider's default applies):
\* the model is the candidate being attempted and messages is one user
\* message holding the caller's prompt unchanged.
C10_RequestShape ==
    \A r \in Requests : \A i \in 1..Len(sent[r]) :
      /\ DOMAIN sent[r][i] = {"model", "messages"}
      /\ sent[r][i].model = Candidates(rev)[i]
      /\ sent[r][i].messages = <<[role |-> "user", content |-> CallerPrompt(r)]>>

C10_Witness ==
    \E r \in Requests :
      /\ Len(sent[r]) = 1
      /\ req[r].body = [prompt |-> "Summarize", text |-> "notes"]
      /\ sent[r][1].messages[1].content = "Summarize: notes"
      /\ sent[r][1].model = "google/gemini-2.0-flash-exp:free"

====
